---- MODULE Spec2Model ----
(***************************************************************************)
(* Model of src/app.py: the pump/dump scanner.                             *)
(*                                                                         *)
(* Numbers.  The program computes its indicators with IEEE-754 doubles,    *)
(* and its gates compare the rounded values; the model computes the same   *)
(* doubles, operation by operation, each result rounded to nearest, ties   *)
(* to even.  A double is a record [s, m, e] of value s * m * 2^e: s is the *)
(* sign (-1, 0, 1), m the 53-bit significand (2^52 <= m < 2^53), e the     *)
(* exponent; zero is [s |-> 0, m |-> <<>>, e |-> 0].  Significands and the *)
(* products, quotients and roots they are rounded from leave the 32-bit    *)
(* range of TLC values: a natural of arbitrary size is a little-endian     *)
(* sequence of limbs to base 2^15 without a leading zero.  The values of   *)
(* the model stay far from the overflow and underflow of doubles, which    *)
(* are not modelled.  Prices and volumes are integers.                     *)
(*                                                                         *)
(* Arithmetic is written as functions, f[x, y], so that an argument is a   *)
(* value before the function is entered.                                   *)
(*                                                                         *)
(* Time is in milliseconds.                                                *)
(***************************************************************************)
EXTENDS Integers, Sequences, FiniteSets, TLC

\* ------------------------------------------------------------------------
\* Naturals of arbitrary size
\* ------------------------------------------------------------------------

LimbBase == 2 ^ 15

Bignum == Seq(0..(LimbBase - 1))

\* the limb of weight LimbBase^(i - 1), 0 beyond the last one
Limb(a, i) == IF i >= 1 /\ i <= Len(a) THEN a[i] ELSE 0

Highest(S) == CHOOSE x \in S : \A y \in S : y <= x

\* a without its leading zeros
BStrip[a \in Seq(Nat)] ==
    LET used == {i \in 1..Len(a) : a[i] # 0}
    IN  IF used = {} THEN <<>> ELSE SubSeq(a, 1, Highest(used))

\* A carry enters column i of the column sums c, each at most 2 * LimbBase - 2:
\* a column below overflows and every column between passes the carry on.
CarryIn(c, i) ==
    \E j \in 1..(i - 1) :
        /\ c[j] >= LimbBase
        /\ \A k \in (j + 1)..(i - 1) : c[k] = LimbBase - 1

\* the natural with the column sums c, each at most 2 * LimbBase - 2
Resolve[c \in Seq(Nat)] ==
    BStrip[[i \in 1..(Len(c) + 1) |->
               (Limb(c, i) + (IF CarryIn(c, i) THEN 1 ELSE 0)) % LimbBase]]

\* n < LimbBase^3
BFromNat[n \in Nat] ==
    BStrip[<<n % LimbBase, (n \div LimbBase) % LimbBase,
             n \div (LimbBase * LimbBase)>>]

BAdd[a \in Bignum, b \in Bignum] ==
    Resolve[[i \in 1..(IF Len(a) > Len(b) THEN Len(a) ELSE Len(b)) |->
                Limb(a, i) + Limb(b, i)]]

\* a * d for a limb d
BMulS[a \in Bignum, d \in Nat] ==
    Resolve[[i \in 1..(Len(a) + 1) |->
                ((Limb(a, i) * d) % LimbBase) + ((Limb(a, i - 1) * d) \div LimbBase)]]

\* a * (b[j] + b[j + 1] * LimbBase + ..)
BMulFrom[a \in Bignum, b \in Bignum, j \in Nat] ==
    IF j > Len(b) THEN <<>>
    ELSE BAdd[BMulS[a, b[j]], <<0>> \o BMulFrom[a, b, j + 1]]

BMul[a \in Bignum, b \in Bignum] == BStrip[BMulFrom[a, b, 1]]

\* -1, 0, 1 as a < b, a = b, a > b
BCmp[a \in Bignum, b \in Bignum] ==
    IF Len(a) # Len(b) THEN (IF Len(a) < Len(b) THEN -1 ELSE 1)
    ELSE LET differ == {i \in 1..Len(a) : a[i] # b[i]}
         IN  IF differ = {} THEN 0
             ELSE IF a[Highest(differ)] < b[Highest(differ)] THEN -1 ELSE 1

\* A borrow enters column i of a - b: a column below falls short and every
\* column between passes the borrow on.
BorrowIn(a, b, i) ==
    \E j \in 1..(i - 1) :
        /\ a[j] < Limb(b, j)
        /\ \A k \in (j + 1)..(i - 1) : a[k] = Limb(b, k)

\* a - b, a >= b
BSub[a \in Bignum, b \in Bignum] ==
    BStrip[[i \in 1..Len(a) |->
               (a[i] - Limb(b, i) - (IF BorrowIn(a, b, i) THEN 1 ELSE 0)
                     + LimbBase) % LimbBase]]

\* the number of bits of a
BitLen[a \in Bignum] ==
    IF a = <<>> THEN 0
    ELSE (15 * (Len(a) - 1))
            + (CHOOSE n \in 1..15 : a[Len(a)] < 2 ^ n /\ a[Len(a)] >= 2 ^ (n - 1))

\* a * 2^k
BShl[a \in Bignum, k \in Nat] ==
    IF a = <<>> THEN a
    ELSE [i \in 1..(k \div 15) |-> 0]
            \o BStrip[[i \in 1..(Len(a) + 1) |->
                          ((Limb(a, i) * (2 ^ (k % 15))) % LimbBase)
                              + (Limb(a, i - 1) \div (2 ^ (15 - (k % 15))))]]

\* a \div 2^k
BShr[a \in Bignum, k \in Nat] ==
    BStrip[[i \in 1..(Len(a) - (k \div 15)) |->
               (a[i + (k \div 15)] \div (2 ^ (k % 15)))
                   + ((Limb(a, i + (k \div 15) + 1) % (2 ^ (k % 15)))
                          * (2 ^ (15 - (k % 15))))]]

\* a % 2^k
BLow[a \in Bignum, k \in Nat] ==
    IF k \div 15 >= Len(a) THEN a
    ELSE BStrip[SubSeq(a, 1, k \div 15) \o <<a[(k \div 15) + 1] % (2 ^ (k % 15))>>]

\* An estimate of r \div d from the leading limbs, r < d * LimbBase and the
\* leading limb of d at least LimbBase / 2: it is r \div d or up to 2 more.
QGuess(r, d) ==
    LET top == (Limb(r, Len(d) + 1) * LimbBase) + Limb(r, Len(d))
    IN  IF top \div d[Len(d)] >= LimbBase THEN LimbBase - 1 ELSE top \div d[Len(d)]

\* r \div d under the same conditions
QDigit[r \in Bignum, d \in Bignum] ==
    IF BCmp[BMulS[d, QGuess(r, d)], r] <= 0 THEN QGuess(r, d)
    ELSE IF BCmp[BMulS[d, QGuess(r, d) - 1], r] <= 0 THEN QGuess(r, d) - 1
    ELSE QGuess(r, d) - 2

\* the quotient q extended by digit, and what is left of r
DivStep[r \in Bignum, d \in Bignum, digit \in Nat, q \in Bignum] ==
    [q |-> <<digit>> \o q, r |-> BSub[r, BMulS[d, digit]]]

\* a quotient with its remainder
QuotRem == [q : Bignum, r : Bignum]

\* one step of the long division: the next limb is brought down
DivLimb[hi \in QuotRem, limb \in Nat, d \in Bignum] ==
    DivStep[BStrip[<<limb>> \o hi.r], d, QDigit[BStrip[<<limb>> \o hi.r], d], hi.q]

\* quotient and remainder of the limbs i.. of a by d, the leading limb of d
\* at least LimbBase / 2
BDivFrom[a \in Bignum, d \in Bignum, i \in Nat] ==
    IF i > (Len(a) - Len(d)) + 1
    THEN [q |-> <<>>, r |-> IF i > Len(a) THEN <<>> ELSE BStrip[SubSeq(a, i, Len(a))]]
    ELSE DivLimb[BDivFrom[a, d, i + 1], a[i], d]

\* the shift that brings the leading limb of d to at least LimbBase / 2
Normalizer[d \in Bignum] == (15 - (BitLen[d] % 15)) % 15

\* a \div d and a % d, d # 0
BDivMod[a \in Bignum, d \in Bignum] ==
    LET res == BDivFrom[BShl[a, Normalizer[d]], BShl[d, Normalizer[d]], 1]
    IN  [q |-> BStrip[res.q], r |-> BShr[res.r, Normalizer[d]]]

\* Newton's iteration from above: x is the last iterate, y the next one
BSqrtFrom[a \in Bignum, x \in Bignum, y \in Bignum] ==
    IF BCmp[y, x] < 0
    THEN BSqrtFrom[a, y, BShr[BAdd[y, BDivMod[a, y].q], 1]]
    ELSE x

\* the integer square root of a
BSqrt[a \in Bignum] ==
    IF a = <<>> THEN a
    ELSE BSqrtFrom[a, BShl[<<1>>, ((BitLen[a] + 1) \div 2) + 1],
                      BShl[<<1>>, (BitLen[a] + 1) \div 2]]

\* ------------------------------------------------------------------------
\* Doubles
\* ------------------------------------------------------------------------

Double == [s : {-1, 0, 1}, m : Bignum, e : Int]

FZero == [s |-> 0, m |-> <<>>, e |-> 0]

\* M + t is rounded up at bit k, where 0 < t < 1 if sticky and t = 0 if not:
\* it is above the midpoint, or at the midpoint below an odd significand
FRoundUp[M \in Bignum, k \in Nat, sticky \in BOOLEAN] ==
    LET c == BCmp[BLow[M, k], BShl[<<1>>, k - 1]]
    IN  c > 0 \/ (c = 0 /\ (sticky \/ BShr[M, k][1] % 2 = 1))

\* the double s * q * 2^E for q <= 2^53
FRoundTo[s \in {-1, 1}, q \in Bignum, E \in Int] ==
    IF BitLen[q] > 53 THEN [s |-> s, m |-> BShr[q, 1], e |-> E + 1]
    ELSE [s |-> s, m |-> q, e |-> E]

\* s * (M + t) * 2^E rounded to the nearest double, ties to even, where
\* 0 < t < 1 if sticky and t = 0 if not; sticky only with BitLen[M] > 54
FRound[s \in {-1, 0, 1}, M \in Bignum, E \in Int, sticky \in BOOLEAN] ==
    IF M = <<>> \/ s = 0 THEN FZero
    ELSE IF BitLen[M] <= 53
    THEN [s |-> s, m |-> BShl[M, 53 - BitLen[M]], e |-> E - (53 - BitLen[M])]
    ELSE FRoundTo[s,
                  IF FRoundUp[M, BitLen[M] - 53, sticky]
                  THEN BAdd[BShr[M, BitLen[M] - 53], <<1>>]
                  ELSE BShr[M, BitLen[M] - 53],
                  E + (BitLen[M] - 53)]

\* float(n) for an integer n
FInt[n \in Int] ==
    FRound[IF n < 0 THEN -1 ELSE 1, BFromNat[IF n < 0 THEN -n ELSE n], 0, FALSE]

FNeg[a \in Double] == [a EXCEPT !.s = -a.s]

FAbs[a \in Double] == [a EXCEPT !.s = a.s * a.s]

\* the double of s * (m * 2^shift + t) * 2^E with t added or taken away
FAddAligned[s \in {-1, 1}, m \in Bignum, shift \in Nat, t \in Bignum, added \in BOOLEAN, E \in Int] ==
    FRound[s, IF added THEN BAdd[BShl[m, shift], t] ELSE BSub[BShl[m, shift], t],
           E, FALSE]

\* a + b for doubles of magnitudes |a| >= |b| > 0; a b more than 60 binary
\* places below a only tells on which side of a the sum lies
FAddOrdered[a \in Double, b \in Double] ==
    FAddAligned[a.s, a.m,
                IF a.e - b.e > 60 THEN 4 ELSE a.e - b.e,
                IF a.e - b.e > 60 THEN <<1>> ELSE b.m,
                a.s = b.s,
                IF a.e - b.e > 60 THEN a.e - 4 ELSE b.e]

\* |a| >= |b| for doubles other than 0
FOutweighs[a \in Double, b \in Double] ==
    a.e > b.e \/ (a.e = b.e /\ BCmp[a.m, b.m] >= 0)

FAdd[a \in Double, b \in Double] ==
    IF a.s = 0 THEN b
    ELSE IF b.s = 0 THEN a
    ELSE FAddOrdered[IF FOutweighs[a, b] THEN a ELSE b,
                     IF FOutweighs[a, b] THEN b ELSE a]

FSub[a \in Double, b \in Double] == FAdd[a, FNeg[b]]

FMul[a \in Double, b \in Double] == FRound[a.s * b.s, BMul[a.m, b.m], a.e + b.e, FALSE]

\* the double of the quotient d.q with remainder d.r, scaled by 2^E
FQuotient[s \in {-1, 1}, d \in QuotRem, E \in Int] ==
    FRound[s, d.q, E, d.r # <<>>]

\* a / b, b # 0
FDiv[a \in Double, b \in Double] ==
    IF a.s = 0 THEN FZero
    ELSE FQuotient[a.s * b.s, BDivMod[BShl[a.m, 55], b.m], a.e - b.e - 55]

\* the double of sqrt(x) * 2^E, r the integer square root of x
FRoot[x \in Bignum, r \in Bignum, E \in Int] == FRound[1, r, E, BMul[r, r] # x]

FSqrtOf[x \in Bignum, E \in Int] == FRoot[x, BSqrt[x], E]

\* sqrt(a), a >= 0: the significand is scaled to an even exponent
FSqrt[a \in Double] ==
    IF a.s = 0 THEN FZero
    ELSE FSqrtOf[BShl[a.m, 56 + ((a.e - 56) % 2)],
                 (a.e - 56 - ((a.e - 56) % 2)) \div 2]

\* -1, 0, 1 as a < b, a = b, a > b
FCmp[a \in Double, b \in Double] ==
    IF a.s # b.s THEN (IF a.s < b.s THEN -1 ELSE 1)
    ELSE IF a.s = 0 THEN 0
    ELSE IF a.e # b.e THEN (IF a.e < b.e THEN -a.s ELSE a.s)
    ELSE a.s * BCmp[a.m, b.m]

FLt(a, b) == FCmp[a, b] < 0
FGt(a, b) == FCmp[a, b] > 0
FLe(a, b) == FCmp[a, b] <= 0
FGe(a, b) == FCmp[a, b] >= 0

\* ------------------------------------------------------------------------
\* Sequences (Python slices, numpy reductions)
\* ------------------------------------------------------------------------

\* the sequences of up to n elements of S
RECURSIVE SeqsUpTo(_, _)
SeqsUpTo(S, n) ==
    IF n = 0 THEN {<<>>}
    ELSE LET shorter == SeqsUpTo(S, n - 1)
         IN  shorter \cup {Append(q, x) : q \in shorter, x \in S}

\* s[-k:]
LastN(s, k) == IF k = 0 \/ k >= Len(s) THEN s ELSE SubSeq(s, Len(s) - k + 1, Len(s))

\* s[:-1]
ButLast(s) == SubSeq(s, 1, Len(s) - 1)

\* the doubles of a list of integers
Floats(s) == [i \in 1..Len(s) |-> FInt[s[i]]]

\* init + a[first] + a[first + step] + .. + a[last], added in this order
FSumTo[a \in Seq(Double), first \in Nat, step \in Nat, last \in Int, init \in Double] ==
    IF last < first THEN init
    ELSE FAdd[FSumTo[a, first, step, last - step, init], a[last]]

\* sum(a) as the built-in adds a list of floats
FSum[a \in Seq(Double)] == FSumTo[a, 1, 1, Len(a), FZero]

\* sum(values) / n for a list of integers (src/app.py:134-135)
Average[values \in Seq(Int), n \in Nat] == FDiv[FSum[Floats(values)], FInt[n]]

\* The eight running sums of numpy's add.reduce combined pairwise:
\* ((r1 + r2) + (r3 + r4)) + ((r5 + r6) + (r7 + r8)), neighbours added until
\* one sum is left.
Combine8[r \in Seq(Double)] ==
    IF Len(r) = 1 THEN r[1]
    ELSE Combine8[[i \in 1..(Len(r) \div 2) |-> FAdd[r[(2 * i) - 1], r[2 * i]]]]

\* The sum of a float array as numpy's add.reduce forms it: in order for
\* fewer than 8 elements, else 8 running sums combined pairwise and the rest
\* added in order, blocks of more than 128 elements split in two.
PairwiseSum[a \in Seq(Double)] ==
    IF Len(a) < 8 THEN FSum[a]
    ELSE IF Len(a) <= 128
    THEN FSumTo[a, Len(a) - (Len(a) % 8) + 1, 1, Len(a),
                Combine8[[j \in 1..8 |->
                    FSumTo[a, j + 8, 8, Len(a) - (Len(a) % 8) - 8 + j, a[j]]]]]
    ELSE FAdd[PairwiseSum[SubSeq(a, 1, (Len(a) \div 2) - ((Len(a) \div 2) % 8))],
              PairwiseSum[SubSeq(a, (Len(a) \div 2) - ((Len(a) \div 2) % 8) + 1, Len(a))]]

\* np.mean
Mean[a \in Seq(Double)] == FDiv[PairwiseSum[a], FInt[Len(a)]]

\* x * x for every x - mean
SquaredDeviations[a \in Seq(Double), mean \in Double] ==
    [i \in 1..Len(a) |-> FMul[FSub[a[i], mean], FSub[a[i], mean]]]

\* np.std: sqrt(mean(abs(a - mean(a)) ** 2))
Std[a \in Seq(Double)] == FSqrt[Mean[SquaredDeviations[a, Mean[a]]]]

\* ------------------------------------------------------------------------
\* Settings (src/app.py:21-29)
\* ------------------------------------------------------------------------

PRICE_CHANGE_THRESHOLD == FDiv[FInt[5], FInt[2]]
VOLUME_SPIKE_THRESHOLD == FDiv[FInt[3], FInt[2]]
MIN_ABSOLUTE_VOLUME == 30000
POLL_INTERVAL_SEC == 20
SIGNAL_COOLDOWN_MIN == 5

\* ------------------------------------------------------------------------
\* Indicators
\* ------------------------------------------------------------------------

\* the literals 1.0 and 100.0
One == FInt[1]
Hundred == FInt[100]

\* (volumes[-1] - mean_vol) / std_vol, or 0.0 (src/app.py:39-42)
ZScore[last \in Double, mean_vol \in Double, std_vol \in Double] ==
    IF std_vol = FZero THEN FZero ELSE FDiv[FSub[last, mean_vol], std_vol]

\* volumes is a list of integer volumes
calculate_volume_zscore(volumes, period) ==
    IF Len(volumes) < period
    THEN FZero
    ELSE LET recent_volumes == Floats(LastN(volumes, period))
         IN  ZScore[FInt[volumes[Len(volumes)]], Mean[recent_volumes],
                    Std[recent_volumes]]

Close(candle) == candle[5]
Volume(candle) == candle[6]

\* ((current_close - previous_close) / previous_close) * 100, or 0.0
PriceChange[current_close \in Double, previous_close \in Double] ==
    IF previous_close = FZero THEN FZero
    ELSE FMul[FDiv[FSub[current_close, previous_close], previous_close], Hundred]

calculate_price_change(ohlcv) ==
    IF Len(ohlcv) < 3
    THEN FZero
    ELSE PriceChange[FInt[Close(ohlcv[Len(ohlcv)])], FInt[Close(ohlcv[Len(ohlcv) - 2])]]

\* np.diff
Diff(prices) == [i \in 1..(Len(prices) - 1) |-> prices[i + 1] - prices[i]]

NonNegative(d) == d >= 0
Negative(d) == d < 0

\* 100.0 - (100.0 / (1.0 + up / down)), 100.0 inside the loop when down is 0
\* (src/app.py:74-75 and 90-94)
RsiOf[up \in Double, down \in Double] ==
    IF down = FZero THEN Hundred
    ELSE FSub[Hundred, FDiv[Hundred, FAdd[One, FDiv[up, down]]]]

RsiState == [up : Double, down : Double, rsi : Double]

\* (average * (period - 1) + value) / period (src/app.py:87-88)
Smooth[average \in Double, value \in Double, period \in Nat] ==
    FDiv[FAdd[FMul[average, FInt[period - 1]], value], FInt[period]]

RsiAt[up \in Double, down \in Double] == [up |-> up, down |-> down, rsi |-> RsiOf[up, down]]

\* one pass of the loop of src/app.py:78-94
RsiStep[before \in RsiState, delta \in Int, period \in Nat] ==
    RsiAt[Smooth[before.up, IF delta > 0 THEN FInt[delta] ELSE FZero, period],
          Smooth[before.down, IF delta > 0 THEN FZero ELSE FInt[-delta], period]]

\* The state of the loop of src/app.py:78-94 after its pass for deltas[i]
\* (1-based), seed being the state before the loop.
RsiSmooth[deltas \in Seq(Int), period \in Nat, i \in Nat, seed \in RsiState] ==
    IF i <= period THEN seed
    ELSE RsiStep[RsiSmooth[deltas, period, i - 1, seed], deltas[i], period]

\* the seed averages of src/app.py:67-69
SeedUp(deltas, period) ==
    FDiv[PairwiseSum[Floats(SelectSeq(SubSeq(deltas, 1, period), NonNegative))],
         FInt[period]]
SeedDown(deltas, period) ==
    FDiv[FNeg[PairwiseSum[Floats(SelectSeq(SubSeq(deltas, 1, period), Negative))]],
         FInt[period]]

\* src/app.py:71-96, up and down being the seed averages
RsiFrom[deltas \in Seq(Int), period \in Nat, up \in Double, down \in Double] ==
    IF down = FZero
    THEN Hundred
    ELSE RsiSmooth[deltas, period, Len(deltas), RsiAt[up, down]].rsi

\* prices is a list of integer prices
calculate_rsi(prices, period) ==
    IF Len(prices) < period + 1
    THEN FInt[50]
    ELSE RsiFrom[Diff(prices), period, SeedUp(Diff(prices), period),
                 SeedDown(Diff(prices), period)]

\* ------------------------------------------------------------------------
\* Classifier
\* ------------------------------------------------------------------------

None == [type |-> "None"]

\* float(c[4]) or float(c[5]) raises: the row is too short
Malformed(candle) == Len(candle) < 6

\* the body of analyze_pump_dump raises (and the handler of src/app.py:173 logs)
AnalyzeRaises(ohlcv) ==
    Len(ohlcv) >= 30 /\ \E i \in 1..Len(ohlcv) : Malformed(ohlcv[i])

Closes(ohlcv) == [i \in 1..Len(ohlcv) |-> Close(ohlcv[i])]
Volumes(ohlcv) == [i \in 1..Len(ohlcv) |-> Volume(ohlcv[i])]

\* avg_last_3 / avg_prev_10, or 1.0 (src/app.py:136)
Growth[avg_last_3 \in Double, avg_prev_10 \in Double] ==
    IF FGt(avg_prev_10, FZero) THEN FDiv[avg_last_3, avg_prev_10] ELSE One

\* src/app.py:133-136
GrowthFrom[volumes \in Seq(Int), avg_last_3 \in Double] ==
    Growth[avg_last_3,
           IF Len(volumes) >= 13
           THEN Average[SubSeq(volumes, Len(volumes) - 12, Len(volumes) - 3), 10]
           ELSE avg_last_3]

VolumeGrowth(volumes) == GrowthFrom[volumes, Average[LastN(volumes, 3), 3]]

\* the literals 5 and 3.5 of src/app.py:145-148
StrongMove == FInt[5]
MediumMove == FDiv[FInt[7], FInt[2]]

Strength(price_change) ==
    IF FGe(FAbs[price_change], StrongMove) THEN "STRONG"
    ELSE IF FGe(FAbs[price_change], MediumMove) THEN "MEDIUM"
    ELSE "WEAK"

Confidence(price_change) ==
    IF FGe(FAbs[price_change], StrongMove) THEN 85
    ELSE IF FGe(FAbs[price_change], MediumMove) THEN 75
    ELSE 65

\* src/app.py:125-126
IsPump(price_change) == FGe(price_change, PRICE_CHANGE_THRESHOLD)
IsDump(price_change) == FLe(price_change, FNeg[PRICE_CHANGE_THRESHOLD])

\* the literals 85 and 15 of src/app.py:130
RsiHigh == FInt[85]
RsiLow == FInt[15]

\* variant of RsiFilter: an RSI at a cutoff is filtered too
RsiFilterInclusive(rsi) == ~(FGe(rsi, RsiHigh) \/ FLe(rsi, RsiLow))
\* src/app.py:130
RsiFilter(rsi) == ~(FGt(rsi, RsiHigh) \/ FLt(rsi, RsiLow))

\* the literal 1.8 of src/app.py:139: the double nearest to 9/5
GrowthThreshold == FDiv[FInt[9], FInt[5]]

\* src/app.py:122 and 139
VolumeOk(current_volume, volume_zscore, volume_growth) ==
    /\ current_volume >= MIN_ABSOLUTE_VOLUME
    /\ FGe(volume_zscore, VOLUME_SPIKE_THRESHOLD)
         \/ FGe(volume_growth, GrowthThreshold)

\* src/app.py:170: the Signal carries the reading of the clock
Stamp(found, now) ==
    IF found = None THEN None ELSE [found EXCEPT !.timestamp = now]

\* the indicators of a window of well-formed candles (src/app.py:113-136)
Indicators(ohlcv) ==
    [price_change |-> calculate_price_change(ohlcv),
     rsi |-> calculate_rsi(LastN(Closes(ohlcv), 30), 14),
     volume_zscore |-> calculate_volume_zscore(ButLast(Volumes(ohlcv)), 15),
     volume_growth |-> VolumeGrowth(Volumes(ohlcv))]

\* What analyze_pump_dump makes of the indicators (src/app.py:109-171), but
\* for the timestamp of the Signal.
Decide(symbol, ohlcv, ind) ==
    IF ~((IsPump(ind.price_change) \/ IsDump(ind.price_change))
          /\ VolumeOk(Volume(ohlcv[Len(ohlcv)]), ind.volume_zscore, ind.volume_growth)
          /\ RsiFilter(ind.rsi))
    THEN None
    ELSE [symbol |-> symbol,
          type |-> IF IsPump(ind.price_change) THEN "PUMP" ELSE "DUMP",
          price_change |-> ind.price_change,
          volume_zscore |-> ind.volume_zscore,
          volume_usdt |-> Volume(ohlcv[Len(ohlcv)]),
          current_price |-> Close(ohlcv[Len(ohlcv)]),
          confidence |-> Confidence(ind.price_change),
          strength |-> Strength(ind.price_change),
          rsi |-> ind.rsi,
          volume_growth |-> ind.volume_growth,
          timestamp |-> 0]

\* analyze_pump_dump but for the timestamp of the Signal
Analysis(symbol, ohlcv) ==
    IF Len(ohlcv) < 30 THEN None
    ELSE IF AnalyzeRaises(ohlcv) THEN None
    ELSE Decide(symbol, ohlcv, Indicators(ohlcv))

\* analyze_pump_dump called when the clock reads now
analyze_pump_dump(symbol, ohlcv, now) == Stamp(Analysis(symbol, ohlcv), now)

\* ------------------------------------------------------------------------
\* Candle windows the provider can return
\* ------------------------------------------------------------------------

\* windows of 29 .. 30 + MaxExtra candles
MaxExtra == 1

Candle(close, volume) == <<0, close, close, close, close, volume>>

Shapes == {"mixed", "up", "down", "flat"}
Moves == {-50, -35, -25, -24, 0, 24, 25, 35, 50}
Histories == {"alt", "flat"}
PrevVolumes == {30100, 30400}
CurVolumes == {29999, 30000, 102169, 102170}

\* The close j bars before the last one.  Bars 2 and 1 close at 1000, the last
\* one at 1000 + move (a change of move / 10 per cent over two bars).
CloseAt(shape, move, j) ==
    IF j = 0 THEN 1000 + move
    ELSE IF j <= 2 THEN 1000
    ELSE IF shape = "mixed" THEN (IF j % 2 = 0 THEN 1000 ELSE 1010)
    ELSE IF shape = "up" THEN 1000 - 10 * (j - 2) - (IF j = 20 THEN 15 ELSE 0)
    ELSE IF shape = "down" THEN 1000 + 10 * (j - 2) + (IF j = 20 THEN 15 ELSE 0)
    ELSE 1000

\* The volume j bars before the last one.
VolumeAt(history, prev, cur, j) ==
    IF j = 0 THEN cur
    ELSE IF j = 1 THEN prev
    ELSE IF history = "alt" /\ j % 2 = 1 THEN 30100
    ELSE 30000

Window(n, shape, move, history, prev, cur) ==
    [i \in 1..n |-> Candle(CloseAt(shape, move, n - i),
                           VolumeAt(history, prev, cur, n - i))]

\* a window with a row that float() rejects
Broken(w) == [w EXCEPT ![1] = <<0>>]

WellFormed ==
    {Window(n, sh, mv, h, pv, cv) :
        n \in 29..(30 + MaxExtra), sh \in Shapes, mv \in Moves,
        h \in Histories, pv \in PrevVolumes, cv \in CurVolumes}

\* 30 closes: a, b, then m 26 times, then c, d
Tie(a, b, m, c, d) == <<a, b>> \o [i \in 1..26 |-> m] \o <<c, d>>

\* Closes whose RSI is 15 or 85 in exact arithmetic.  As the program rounds,
\* the RSI of the first is 14.999999999999986 and that of the second 15.0,
\* the RSI of the third is 84.99999999999999, that of the fourth 85.0 and
\* that of the fifth 85.00000000000001.
EdgeCloses ==
    { Tie(5000, 5117, 4454, 3978, 4056),
      Tie(5000, 5003, 4986, 4748, 4787),
      Tie(5000, 6751, 6442, 6680, 6641),
      Tie(5000, 5017, 5014, 5252, 5213),
      Tie(5000, 6530, 6260, 6498, 6459) }

\* windows of 30 candles with these closes, the volume doubled on the last 3
AtRsiEdge ==
    {[i \in 1..30 |-> Candle(c[i], IF i <= 27 THEN 30000 ELSE 60000)] :
        c \in EdgeCloses}

\* What fetch_ohlcv can answer in the scan loop: nothing, too few candles, a
\* quiet window, a pump, and a window with a malformed row.
ScanWindows ==
    { <<>>,
      Window(9, "mixed", 0, "alt", 30100, 30000),
      Window(30, "mixed", 0, "alt", 30100, 30000),
      Window(30, "mixed", 50, "alt", 30400, 30000),
      Broken(Window(30, "mixed", 50, "alt", 30400, 30000)) }

\* the windows the classifier is called with
ClassifierInputs ==
    WellFormed \cup AtRsiEdge \cup ScanWindows

\* The windows analyze_pump_dump computes the indicators of, and the
\* indicators, each computed once for each of its arguments.
Analysed == {w \in ClassifierInputs : Len(w) >= 30 /\ ~AnalyzeRaises(w)}

LagCloses(ohlcv) == <<Close(ohlcv[Len(ohlcv)]), Close(ohlcv[Len(ohlcv) - 2])>>

ChangeOfCloses ==
    [p \in {LagCloses(w) : w \in Analysed} |-> PriceChange[FInt[p[1]], FInt[p[2]]]]

RsiOfCloses ==
    [closes \in {LastN(Closes(w), 30) : w \in Analysed} |->
        calculate_rsi(closes, 14)]

ZScoreOfVolumes ==
    [volumes \in {ButLast(Volumes(w)) : w \in Analysed} |->
        calculate_volume_zscore(volumes, 15)]

GrowthOfVolumes ==
    [volumes \in {Volumes(w) : w \in Analysed} |-> VolumeGrowth(volumes)]

\* Indicators(w) for the windows of Analysed
KnownIndicators ==
    [w \in Analysed |->
        [price_change |-> ChangeOfCloses[LagCloses(w)],
         rsi |-> RsiOfCloses[LastN(Closes(w), 30)],
         volume_zscore |-> ZScoreOfVolumes[ButLast(Volumes(w))],
         volume_growth |-> GrowthOfVolumes[Volumes(w)]]]

\* analyze_pump_dump(symbol, ohlcv, now) for a window of ClassifierInputs
Classify(symbol, ohlcv, now) ==
    IF ohlcv \in Analysed
    THEN Stamp(Decide(symbol, ohlcv, KnownIndicators[ohlcv]), now)
    ELSE analyze_pump_dump(symbol, ohlcv, now)

\* ------------------------------------------------------------------------
\* The scan loop (main, src/app.py:245-350)
\* ------------------------------------------------------------------------

\* scan cycles of one run
MaxCycles == 3

\* incidents of one run: slow answers of the provider, errors raised, Signals
MaxIncidents == 3

\* chats the lookup of send_telegram finds
MaxChats == 2

\* the roster built at src/app.py:263-281
Symbols == {"AAA/USDT:USDT", "BBB/USDT:USDT"}

\* How long a request to the provider can take, in milliseconds: no time, a
\* time after which the next cycle starts as a cooldown ends, and the time
\* after which the sweep drops an entry.
Latencies == {0, 279950, 900000}

VARIABLES
    TELEGRAM_BOT_TOKEN,  \* whether the token is set (src/app.py:16)
    clock,               \* time.time(), in milliseconds
    pc,                  \* the position of main: "cycle", "scan", "notify", "sleep"
    recent_signals,      \* instrument -> time of its last signal
    signal_count,
    current_time,
    shuffled_symbols,
    idx,                 \* 1-based position in shuffled_symbols
    signal,              \* the Signal being notified, or None
    error_lines,         \* error lines printed so far
    cycles,              \* cycles started
    incidents,           \* slow answers, errors and Signals so far
    failures,            \* errors raised so far
    visit,               \* instrument -> what this cycle did with it
    unswept,             \* recent_signals as it would be without the sweep
    last_detection,      \* instrument -> timestamp of its last accepted Signal
    delivery,            \* instrument -> how the notification of its last Signal went
    call,                \* the arguments of a call of an indicator or the classifier
    ret                  \* the results of the calls made with these arguments

scanVars == <<TELEGRAM_BOT_TOKEN, clock, pc, recent_signals, signal_count,
              current_time, shuffled_symbols, idx, signal, error_lines, cycles,
              incidents, failures, visit, unswept, last_detection, delivery>>
vars == <<scanVars, call, ret>>

EmptyMap == [k \in {} |-> 0]
Put(m, k, v) == [x \in DOMAIN m \cup {k} |-> IF x = k THEN v ELSE m[x]]

\* variant of CooldownMs: minutes taken for seconds
CooldownMsWrong == SIGNAL_COOLDOWN_MIN * 1000
\* SIGNAL_COOLDOWN_MIN * 60 (src/app.py:305) and its triple (src/app.py:343)
CooldownMs == SIGNAL_COOLDOWN_MIN * 60 * 1000
RetentionMs == SIGNAL_COOLDOWN_MIN * 60 * 3 * 1000

\* the gate of src/app.py:303-306: the instrument is skipped
InCooldown(signals, symbol, now) ==
    symbol \in DOMAIN signals /\ now - signals[symbol] < CooldownMs

\* variant of Record: nothing is written
RecordForgotten(signals, symbol, now) == signals
\* src/app.py:318
Record(signals, symbol, now) == Put(signals, symbol, now)

\* variant of Sweep: the old entries are the ones kept
SweepInverted(signals, now) ==
    [k \in {x \in DOMAIN signals : now - signals[x] >= RetentionMs} |-> signals[k]]
\* src/app.py:342-343
Sweep(signals, now) ==
    [k \in {x \in DOMAIN signals : now - signals[x] < RetentionMs} |-> signals[k]]

\* variant of AfterFailure: the handler leaves the loop
AfterFailureBreak(i, n) == n + 1
\* the position after the handler of src/app.py:333-336 (continue)
AfterFailure(i, n) == i + 1

Orders ==
    {o \in [1..Cardinality(Symbols) -> Symbols] :
        \A i, j \in DOMAIN o : i # j => o[i] # o[j]}

NoCall == [fn |-> "none"]

\* main as it enters the loop of src/app.py:289
ScanInit ==
    /\ clock = 0
    /\ pc = "cycle"
    /\ recent_signals = EmptyMap
    /\ signal_count = 0
    /\ current_time = 0
    /\ shuffled_symbols = <<>>
    /\ idx = 1
    /\ signal = None
    /\ error_lines = 0
    /\ cycles = 0
    /\ incidents = 0
    /\ failures = 0
    /\ visit = [s \in Symbols |-> "pending"]
    /\ unswept = EmptyMap
    /\ last_detection = EmptyMap
    /\ delivery = [s \in Symbols |-> "none"]

Init ==
    /\ ScanInit
    /\ TELEGRAM_BOT_TOKEN \in BOOLEAN
    /\ call = NoCall
    /\ ret = <<>>

\* src/app.py:290-298
StartCycle ==
    /\ pc = "cycle"
    /\ cycles < MaxCycles
    /\ cycles' = cycles + 1
    /\ current_time' = clock
    /\ \E o \in Orders : shuffled_symbols' = o
    /\ idx' = 1
    /\ pc' = "scan"
    /\ visit' = [s \in Symbols |-> "pending"]
    /\ UNCHANGED <<TELEGRAM_BOT_TOKEN, clock, recent_signals, signal_count, signal,
                   error_lines, incidents, failures, unswept, last_detection,
                   delivery, call, ret>>

Slow(d) == IF d > 0 THEN 1 ELSE 0

\* The step takes n incidents out of the budget of the run.
Spend(n) ==
    /\ incidents + n <= MaxIncidents
    /\ incidents' = incidents + n

\* The step raises so many errors and prints so many error lines.
Raises(errors, lines) ==
    /\ failures' = failures + errors
    /\ error_lines' = error_lines + lines

\* One pass of the body of the for loop without a Signal: idx moves on.
Continue(symbol, result, elapsed, next) ==
    /\ idx' = next
    /\ visit' = [visit EXCEPT ![symbol] = result]
    /\ clock' = clock + elapsed
    /\ UNCHANGED <<TELEGRAM_BOT_TOKEN, pc, recent_signals, signal_count,
                   current_time, shuffled_symbols, signal, cycles, unswept,
                   last_detection, delivery, call, ret>>

\* src/app.py:302-306
SkipSymbol ==
    /\ pc = "scan"
    /\ idx <= Len(shuffled_symbols)
    /\ InCooldown(recent_signals, shuffled_symbols[idx], current_time)
    /\ Continue(shuffled_symbols[idx], "cooldown", 0, idx + 1)
    /\ UNCHANGED <<incidents, failures, error_lines>>

\* src/app.py:309 raises, at once or after waiting for the provider; the
\* handler of src/app.py:333-336 prints nothing and sleeps 2 s when the
\* message holds "429"
FetchFails ==
    /\ pc = "scan"
    /\ idx <= Len(shuffled_symbols)
    /\ ~InCooldown(recent_signals, shuffled_symbols[idx], current_time)
    /\ Raises(1, 0)
    /\ \E d \in Latencies, backoff \in {0, 2000} :
         /\ Spend(Slow(d) + 1)
         /\ Continue(shuffled_symbols[idx], "fetch_failed", d + backoff,
                     AfterFailure(idx, Len(shuffled_symbols)))

\* src/app.py:309-315: a window comes back and no Signal comes of it; when the
\* classifier raises, its handler (src/app.py:173-175) prints a line
NoSignal ==
    /\ pc = "scan"
    /\ idx <= Len(shuffled_symbols)
    /\ ~InCooldown(recent_signals, shuffled_symbols[idx], current_time)
    /\ \E d \in Latencies, ohlcv \in ScanWindows :
         LET symbol == shuffled_symbols[idx] IN
         \/ /\ Len(ohlcv) < 10
            /\ Spend(Slow(d))
            /\ Continue(symbol, "unfit", d, idx + 1)
            /\ UNCHANGED <<failures, error_lines>>
         \/ /\ Len(ohlcv) >= 10
            /\ AnalyzeRaises(ohlcv)
            /\ Spend(Slow(d) + 1)
            /\ Raises(1, 1)
            /\ Continue(symbol, "analysis_failed", d, idx + 1)
         \/ /\ Len(ohlcv) >= 10
            /\ ~AnalyzeRaises(ohlcv)
            /\ Classify(symbol, ohlcv, clock + d) = None
            /\ Spend(Slow(d))
            /\ Continue(symbol, "classified", d, idx + 1)
            /\ UNCHANGED <<failures, error_lines>>

\* src/app.py:309-320: the classifier returns a Signal and it is registered
AcceptSignal ==
    /\ pc = "scan"
    /\ idx <= Len(shuffled_symbols)
    /\ ~InCooldown(recent_signals, shuffled_symbols[idx], current_time)
    /\ \E d \in Latencies, ohlcv \in ScanWindows :
         LET symbol == shuffled_symbols[idx] IN
         \E found \in {Classify(symbol, ohlcv, clock + d)} :
             /\ Spend(Slow(d) + 1)
             /\ Len(ohlcv) >= 10
             /\ found # None
             /\ signal' = found
             /\ recent_signals' = Record(recent_signals, symbol, current_time)
             /\ unswept' = Put(unswept, symbol, current_time)
             /\ last_detection' = Put(last_detection, symbol, found.timestamp)
             /\ signal_count' = signal_count + 1
             /\ visit' = [visit EXCEPT ![symbol] = "signal"]
             /\ clock' = clock + d
             /\ pc' = "notify"
             /\ UNCHANGED <<TELEGRAM_BOT_TOKEN, current_time, shuffled_symbols, idx,
                            cycles, failures, error_lines, delivery, call, ret>>

\* How a call of send_telegram (src/app.py:179-212) goes: the lookup of the
\* chats fails, or it finds up to MaxChats chats and posts[i] tells whether
\* the post to the i-th of them goes through.
Deliveries ==
    {[lookup_failed |-> TRUE, posts |-> <<>>]}
        \cup {[lookup_failed |-> FALSE, posts |-> p] : p \in SeqsUpTo(BOOLEAN, MaxChats)}

\* send_telegram is not called, or returns at once (src/app.py:180-181, 325)
NotSent == [lookup_failed |-> FALSE, posts |-> <<>>]

\* what the call of src/app.py:325-326 can do
Attempts == IF TELEGRAM_BOT_TOKEN THEN Deliveries ELSE {NotSent}

\* the errors send_telegram swallows (src/app.py:198-199, 211-212)
DeliveryErrors(d) ==
    (IF d.lookup_failed THEN 1 ELSE 0)
        + Cardinality({i \in DOMAIN d.posts : ~d.posts[i]})

\* time.sleep(0.1) after every post that went through (src/app.py:210)
DeliverySleep(d) == 100 * Cardinality({i \in DOMAIN d.posts : d.posts[i]})

\* How a notification went that raised so many errors after the posts of d:
\* something failed, there was nobody to send to, or every chat got it.
Outcome(d, errors) ==
    IF errors > 0 THEN "failed"
    ELSE IF d.posts = <<>> THEN "no_recipient"
    ELSE "delivered"

\* src/app.py:322-331: the Signal is formatted, sent to every chat and
\* announced, and the loop sleeps 0.05 s
Notify ==
    /\ pc = "notify"
    /\ \E d \in Attempts :
         /\ Spend(DeliveryErrors(d))
         /\ Raises(DeliveryErrors(d), 0)
         /\ clock' = clock + DeliverySleep(d) + 50
         /\ delivery' = [delivery EXCEPT
                            ![signal.symbol] = Outcome(d, DeliveryErrors(d))]
    /\ idx' = idx + 1
    /\ pc' = "scan"
    /\ signal' = None
    /\ UNCHANGED <<TELEGRAM_BOT_TOKEN, recent_signals, signal_count, current_time,
                   shuffled_symbols, cycles, visit, unswept, last_detection,
                   call, ret>>

\* src/app.py:323 raises before anything is sent, or src/app.py:328 raises
\* after send_telegram has returned; the handler of src/app.py:333-336 prints
\* nothing and sleeps 2 s when the message holds "429"
NotifyFails ==
    /\ pc = "notify"
    /\ \E d \in Attempts \cup {NotSent}, backoff \in {0, 2000} :
         /\ Spend(DeliveryErrors(d) + 1)
         /\ Raises(DeliveryErrors(d) + 1, 0)
         /\ clock' = clock + DeliverySleep(d) + backoff
         /\ delivery' = [delivery EXCEPT
                            ![signal.symbol] = Outcome(d, DeliveryErrors(d) + 1)]
    /\ idx' = AfterFailure(idx, Len(shuffled_symbols))
    /\ visit' = [visit EXCEPT ![signal.symbol] = "notify_failed"]
    /\ pc' = "scan"
    /\ signal' = None
    /\ UNCHANGED <<TELEGRAM_BOT_TOKEN, recent_signals, signal_count, current_time,
                   shuffled_symbols, cycles, unswept, last_detection, call, ret>>

\* src/app.py:338-343
EndCycle ==
    /\ pc = "scan"
    /\ idx > Len(shuffled_symbols)
    /\ current_time' = clock
    /\ recent_signals' = Sweep(recent_signals, clock)
    /\ pc' = "sleep"
    /\ visit' = [s \in Symbols |-> "pending"]
    /\ UNCHANGED <<TELEGRAM_BOT_TOKEN, clock, signal_count, shuffled_symbols, idx,
                   signal, error_lines, cycles, incidents, failures, unswept,
                   last_detection, delivery, call, ret>>

\* The cycle raises outside the body of the for loop, at src/app.py:291 before
\* anything is done or at src/app.py:338 before the sweep: the handler of
\* src/app.py:345-347 prints a line and sleeps 5 s.
CycleFails ==
    /\ \/ /\ pc = "cycle"
          /\ cycles < MaxCycles
          /\ cycles' = cycles + 1
       \/ /\ pc = "scan"
          /\ idx > Len(shuffled_symbols)
          /\ cycles' = cycles
    /\ Spend(1)
    /\ Raises(1, 1)
    /\ clock' = clock + 5000
    /\ pc' = "sleep"
    /\ visit' = [s \in Symbols |-> "pending"]
    /\ UNCHANGED <<TELEGRAM_BOT_TOKEN, recent_signals, signal_count, current_time,
                   shuffled_symbols, idx, signal, unswept, last_detection,
                   delivery, call, ret>>

\* src/app.py:349-350
Sleep ==
    /\ pc = "sleep"
    /\ clock' = clock + POLL_INTERVAL_SEC * 1000
    /\ pc' = "cycle"
    /\ UNCHANGED <<TELEGRAM_BOT_TOKEN, recent_signals, signal_count, current_time,
                   shuffled_symbols, idx, signal, error_lines, cycles, incidents,
                   failures, visit, unswept, last_detection, delivery, call, ret>>

Next ==
    \/ StartCycle
    \/ SkipSymbol
    \/ FetchFails
    \/ NoSignal
    \/ AcceptSignal
    \/ Notify
    \/ NotifyFails
    \/ EndCycle
    \/ CycleFails
    \/ Sleep

Spec == Init /\ [][Next]_vars

\* main is one thread: a step that can be taken is taken
FairSpec == Spec /\ WF_vars(Next)

\* ------------------------------------------------------------------------
\* The classifier called twice on one window
\* ------------------------------------------------------------------------

ClassifyInit ==
    /\ ScanInit
    /\ TELEGRAM_BOT_TOKEN = FALSE
    /\ call \in {[fn |-> "analyze_pump_dump", symbol |-> "AAA/USDT:USDT", ohlcv |-> w] :
                    w \in ClassifierInputs}
    /\ ret = <<>>

\* analyze_pump_dump(symbol, ohlcv) is called; the clock may move on before
\* the next call.
CallClassifier ==
    /\ call.fn = "analyze_pump_dump"
    /\ Len(ret) < 2
    /\ ret' = Append(ret, Classify(call.symbol, call.ohlcv, clock))
    /\ \E d \in {0, 1} : clock' = clock + d
    /\ UNCHANGED <<TELEGRAM_BOT_TOKEN, pc, recent_signals, signal_count,
                   current_time, shuffled_symbols, idx, signal, error_lines, cycles,
                   incidents, failures, visit, unswept, last_detection, delivery,
                   call>>

ClassifyNext == CallClassifier

SpecClassify == ClassifyInit /\ [][ClassifyNext]_vars

\* ------------------------------------------------------------------------
\* calculate_rsi on short price sequences
\* ------------------------------------------------------------------------

\* prices are 1 .. MaxPrice, sequences have up to MaxPrices of them
MaxPrice == 3
MaxPrices == 4

\* periods are 1 .. MaxPeriod
MaxPeriod == 2

RsiInit ==
    /\ ScanInit
    /\ TELEGRAM_BOT_TOKEN = FALSE
    /\ call \in {[fn |-> "calculate_rsi", prices |-> q, period |-> k] :
                    q \in SeqsUpTo(1..MaxPrice, MaxPrices), k \in 1..MaxPeriod}
    /\ ret = <<>>

CallRsi ==
    /\ call.fn = "calculate_rsi"
    /\ ret = <<>>
    /\ ret' = <<calculate_rsi(call.prices, call.period)>>
    /\ UNCHANGED <<scanVars, call>>

RsiNext == CallRsi

SpecRsi == RsiInit /\ [][RsiNext]_vars

\* ------------------------------------------------------------------------
\* Properties
\* ------------------------------------------------------------------------

\* The time the gate of the current cycle compares with or, between two
\* cycles, the time the gate of the next cycle will compare with.
GateTime == IF pc = "cycle" THEN clock ELSE current_time

\* C1: once a Signal for an instrument is recorded with timestamp T, the gate
\* skips the instrument at every cycle time in [T, T + cooldown) and lets it
\* through at every cycle time >= T + cooldown, evicted or not.
C1_CooldownGate ==
    pc \in {"cycle", "scan"} =>
      \A x \in DOMAIN unswept :
        /\ GateTime >= unswept[x]
        /\ GateTime < unswept[x] + SIGNAL_COOLDOWN_MIN * 60 * 1000
             => InCooldown(recent_signals, x, GateTime)
        /\ GateTime >= unswept[x] + SIGNAL_COOLDOWN_MIN * 60 * 1000
             => ~InCooldown(recent_signals, x, GateTime)

\* An instrument is fetched in the cycle that starts exactly as its cooldown ends.
C1_FetchedAtExpiry ==
    /\ pc = "scan"
    /\ \E x \in DOMAIN unswept :
         /\ current_time = unswept[x] + SIGNAL_COOLDOWN_MIN * 60 * 1000
         /\ visit[x] \in {"unfit", "classified"}

\* C2 (as claimed): the detection times of two accepted Signals of one
\* instrument are at least the cooldown window apart.
C2_DetectionsApart ==
    [][\A x \in DOMAIN last_detection :
         last_detection'[x] # last_detection[x]
           => last_detection'[x] - last_detection[x]
                >= SIGNAL_COOLDOWN_MIN * 60 * 1000]_vars

\* the instrument got nothing to classify: its fetch raised or answered
\* with fewer than 10 candles
NothingFetched == {"fetch_failed", "unfit"}

\* the instrument was fetched and the classifier was called on its window
FetchedAndClassified == {"analysis_failed", "classified", "signal", "notify_failed"}

\* an error was raised for the instrument
Failed == {"fetch_failed", "analysis_failed", "notify_failed"}

\* When the for loop ends, every instrument was skipped, being in cooldown,
\* or fetched, and classified if the fetch gave a window to classify.
EveryInstrumentServed ==
    /\ idx <= Len(shuffled_symbols) + 1
    /\ (pc = "scan" /\ idx > Len(shuffled_symbols)) =>
         \A x \in Symbols :
           \/ visit[x] = "cooldown" /\ InCooldown(recent_signals, x, current_time)
           \/ visit[x] \in NothingFetched
           \/ visit[x] \in FetchedAndClassified

\* an error was raised for an instrument of the cycle under way
FailedInCycle ==
    pc \in {"scan", "notify"} /\ \E x \in Symbols : visit[x] \in Failed

\* C3: a failure for one instrument does not abort the cycle: when the for
\* loop ends every instrument was skipped for its cooldown or fetched and,
\* with a window to classify, classified, whatever failed for the others;
\* and after a failure the loop comes to the head of the next cycle.
C3_FailureIsolated ==
    /\ []EveryInstrumentServed
    /\ FailedInCycle ~> (pc = "cycle")

\* The first instrument of a cycle failed with a rate limit error, the loop
\* slept 2 s, and the second instrument was fetched and classified.
C3_ClassifiedAfterFailure ==
    /\ pc = "scan"
    /\ idx > Len(shuffled_symbols)
    /\ Len(shuffled_symbols) = 2
    /\ visit[shuffled_symbols[1]] \in Failed
    /\ visit[shuffled_symbols[2]] \in {"classified", "signal"}
    /\ clock - current_time = 2000

\* C4: when the notification of a Signal is attempted the cooldown entry of
\* its instrument is written, with the time of the cycle, and the attempt
\* leaves it as it is, however it ends; an instrument whose notification
\* failed or found nobody to send to is skipped by the gate until its cooldown
\* ends.
C4_RecordedBeforeNotified ==
    /\ [][pc = "notify" =>
            /\ signal # None
            /\ signal.symbol \in DOMAIN recent_signals
            /\ recent_signals[signal.symbol] = current_time
            /\ recent_signals' = recent_signals]_vars
    /\ [](\A x \in {y \in Symbols : delivery[y] \in {"failed", "no_recipient"}} :
            /\ x \in DOMAIN unswept
            /\ (pc \in {"cycle", "scan"}
                  /\ GateTime < unswept[x] + SIGNAL_COOLDOWN_MIN * 60 * 1000)
                 => InCooldown(recent_signals, x, GateTime))

\* The notification of a Signal failed, and the next cycle skipped the
\* instrument.
C4_InCooldownAfterFailedDelivery ==
    /\ cycles = 2
    /\ pc = "scan"
    /\ \E x \in Symbols : delivery[x] = "failed" /\ visit[x] = "cooldown"

\* C5: an entry the sweep has removed is at least a cooldown window old, the
\* entries it has kept are those of the map never swept, and the gate decides
\* the same on both maps.
C5_SweepHarmless ==
    /\ \A x \in DOMAIN unswept \ DOMAIN recent_signals :
         clock - unswept[x] >= SIGNAL_COOLDOWN_MIN * 60 * 1000
    /\ \A x \in DOMAIN recent_signals :
         x \in DOMAIN unswept /\ recent_signals[x] = unswept[x]
    /\ pc \in {"cycle", "scan"} =>
         \A x \in Symbols :
           InCooldown(recent_signals, x, GateTime) <=> InCooldown(unswept, x, GateTime)

\* The sweep of the first cycle has removed the entry of an instrument, and
\* the third cycle has let the instrument through.
C5_FetchedAfterSweep ==
    /\ pc = "scan"
    /\ cycles = 3
    /\ \E x \in DOMAIN unswept :
         /\ x \notin DOMAIN recent_signals
         /\ visit[x] \in {"unfit", "classified"}

\* C6 (as claimed): two calls of the classifier with the same instrument and
\* window return the same outcome, every field the same.
C6_SameSignal == Len(ret) = 2 => ret[1] = ret[2]

\* (current bar's volume - mean) / std over the last 15 volumes before the
\* current bar, 0 when there are fewer or they do not vary
ZClaimed(volumes) ==
    IF Len(volumes) < 16 THEN FZero
    ELSE LET recent == Floats(LastN(ButLast(volumes), 15))
         IN  ZScore[FInt[volumes[Len(volumes)]], Mean[recent], Std[recent]]

\* ZClaimed for the volumes of the windows of Analysed
ZClaimedOfVolumes ==
    [volumes \in {Volumes(w) : w \in Analysed} |-> ZClaimed(volumes)]

\* C7 (as claimed): the z-score of a Signal is that of the current bar's
\* volume against the 15 volumes before it.
C7_ZScoreOfCurrentBar ==
    call.fn = "analyze_pump_dump" =>
      \A i \in DOMAIN ret :
        ret[i] # None =>
          ret[i].volume_zscore = ZClaimedOfVolumes[Volumes(call.ohlcv)]

\* every gate of the claim passes on a window of Analysed
GatesPass(ohlcv) ==
    LET ind == KnownIndicators[ohlcv]
    IN  /\ FGe(ind.price_change, PRICE_CHANGE_THRESHOLD)
             \/ FLe(ind.price_change, FNeg[PRICE_CHANGE_THRESHOLD])
        /\ Volume(ohlcv[Len(ohlcv)]) >= MIN_ABSOLUTE_VOLUME
        /\ FGe(ind.volume_zscore, VOLUME_SPIKE_THRESHOLD)
             \/ FGe(ind.volume_growth, GrowthThreshold)
        /\ ~FGt(ind.rsi, RsiHigh)
        /\ ~FLt(ind.rsi, RsiLow)

\* C8: on a window of at least 30 well-formed candles the classifier returns
\* a Signal exactly when the price, volume and RSI gates all pass, on a
\* shorter window never.
C8_SignalIffGates ==
    (call.fn = "analyze_pump_dump" /\ ~AnalyzeRaises(call.ohlcv)) =>
      \A i \in DOMAIN ret :
        ret[i] # None <=> (Len(call.ohlcv) >= 30 /\ GatesPass(call.ohlcv))

\* A Signal was returned for a window whose RSI is a cutoff, 15.0 or 85.0.
C8_AcceptedAtCutoff ==
    /\ call.fn = "analyze_pump_dump"
    /\ \E i \in DOMAIN ret :
         /\ ret[i] # None
         /\ ret[i].rsi \in {RsiLow, RsiHigh}

\* the RSI of the claim: seed, then smooth every later difference
RsiClaimed(prices, period) ==
    LET deltas == Diff(prices)
    IN  RsiSmooth[deltas, period, Len(deltas),
                  RsiAt[SeedUp(deltas, period), SeedDown(deltas, period)]].rsi

\* C9 (as claimed): with at least period + 1 closes the RSI returned is the
\* one of the averages after the last difference.
C9_RsiOfLastStep ==
    (call.fn = "calculate_rsi" /\ ret # <<>>
       /\ Len(call.prices) >= call.period + 1) =>
      ret[1] = RsiClaimed(call.prices, call.period)

\* C10 (as claimed): every error raised so far has its line in the log.
C10_EveryErrorLogged == error_lines = failures

====
